---- MODULE Spec2Model ----
(***************************************************************************)
(* Model of terraform-provider-encryptedssm: the Create/Read/Update/Delete *)
(* handlers of the encryptedssm_parameter resource                         *)
(* (encryptedssm/resource_encryptedssm_parameter.go), the helpers of       *)
(* encryptedssm/util.go they call, and the two remote services they drive  *)
(* (SSM Parameter Store and KMS), for one managed record.                  *)
(*                                                                         *)
(* Each handler is one action: it runs to completion, with the answers of  *)
(* the remote services drawn nondeterministically.  The calls a handler    *)
(* issued and the error it returned are kept in `last`.                    *)
(***************************************************************************)
EXTENDS Integers, Sequences, FiniteSets, TLC

VARIABLES
    store,      \* the Parameter Store: name -> entry
    state,      \* the saved resource state (schema.ResourceData after the handler)
    declared,   \* the configuration handed to the last Create/Update
    last,       \* the last handler run: its inputs, its calls, its error
    untouched,  \* since the last Put, which succeeded, only Reads have run and no
                \* other writer has touched the store
    replacing,  \* a replacement has deleted the old resource and not yet created the new
    nEnv,       \* number of steps other writers have taken
    nDecl       \* number of times the declaration was edited

vars == <<store, state, declared, last, untouched, replacing, nEnv, nDecl>>

----------------------------------------------------------------------------
(* Bounds *)

\* Fetches that fit into the creation-validation window of Read's retry loop.
MaxPolls == 2
\* Steps taken by writers other than this provider.
MaxEnv == 1
\* Edits of the declaration.
MaxDecl == 1

----------------------------------------------------------------------------
(* Values *)

Names == {"/a/b", "/a/c"}
Plaintexts == {"p1", "p2"}
Keys == {"k1", "k2"}

ParameterTierStandard == "Standard"
ParameterTierAdvanced == "Advanced"
Tiers == {ParameterTierStandard, ParameterTierAdvanced}

DataTypeImage == "aws:ec2:image"
DataTypes == {"text", DataTypeImage}

\* The value Read shows when the stored plaintext is not the declared one.
Sentinel == "Outdated sensitive value"

\* Declared encrypted_value strings: base64 texts of KMS blobs, and one
\* string that is not base64.
EncValues == {"b64(k1:p1)", "b64(k1:p2)", "not base64"}

\* overwrite is optional: unset, or an explicit boolean.
Overwrites == {"unset", "true", "false"}

AwsTagKeyPrefix == "aws:"
TagKeys == {"team", "aws:stack"}
TagValues == {"a", "b"}
\* Which keys start with AwsTagKeyPrefix.
HasAwsPrefix(k) == k = "aws:stack"

\* Tag maps: functions from a set of keys to values.
NoTags == [k \in {} |-> "a"]
TagMaps == UNION {[ks -> TagValues] : ks \in SUBSET TagKeys}
\* Tag maps a configuration declares.
DeclTags == {NoTags, [k \in {"team"} |-> "a"], [k \in {"team"} |-> "b"]}

----------------------------------------------------------------------------
(* encoding/base64 and KMS *)

\* A variant that decodes what it can and reports no error.
Base64Decode_Lenient(s) ==
    CASE s = "b64(k1:p1)" -> [ok |-> TRUE, blob |-> "blob(k1:p1)"]
      [] s = "b64(k1:p2)" -> [ok |-> TRUE, blob |-> "blob(k1:p2)"]
      [] OTHER -> [ok |-> TRUE, blob |-> ""]

\* base64.StdEncoding.DecodeString: the blob, or an error for a string with
\* characters outside the alphabet (a blank is one).
Base64Decode(s) ==
    CASE s = "b64(k1:p1)" -> [ok |-> TRUE, blob |-> "blob(k1:p1)"]
      [] s = "b64(k1:p2)" -> [ok |-> TRUE, blob |-> "blob(k1:p2)"]
      [] OTHER -> [ok |-> FALSE, blob |-> ""]

\* A variant whose failures pass for a decryption to nothing.
KmsDecrypt_Lenient(key, blob, kmsUp) ==
    IF ~kmsUp THEN [ok |-> TRUE, plaintext |-> ""]
    ELSE CASE key = "k1" /\ blob = "blob(k1:p1)" -> [ok |-> TRUE, plaintext |-> "p1"]
           [] key = "k1" /\ blob = "blob(k1:p2)" -> [ok |-> TRUE, plaintext |-> "p2"]
           [] OTHER -> [ok |-> TRUE, plaintext |-> ""]

\* kms Decrypt(KeyId, CiphertextBlob): the plaintext when the blob was made
\* under that key and the service answers, an error otherwise.
KmsDecrypt(key, blob, kmsUp) ==
    IF ~kmsUp THEN [ok |-> FALSE, plaintext |-> ""]
    ELSE CASE key = "k1" /\ blob = "blob(k1:p1)" -> [ok |-> TRUE, plaintext |-> "p1"]
           [] key = "k1" /\ blob = "blob(k1:p2)" -> [ok |-> TRUE, plaintext |-> "p2"]
           [] OTHER -> [ok |-> FALSE, plaintext |-> ""]

----------------------------------------------------------------------------
(* Tag sets (util.go) *)

\* A Go map that is nil, and one that holds the fields m.
NilMap == [isNil |-> TRUE, m |-> <<>>]
GoMap(m) == [isNil |-> FALSE, m |-> m]

\* TagData: a nil pointer, or a value with its additional fields.
NilTagData ==
    [isNil |-> TRUE, Value |-> "",
     AdditionalBoolFields |-> NilMap, AdditionalStringFields |-> NilMap]
TagData(value, boolFields, stringFields) ==
    [isNil |-> FALSE, Value |-> value,
     AdditionalBoolFields |-> boolFields, AdditionalStringFields |-> stringFields]

\* New: KeyValueTags (key -> TagData) from a map of strings; each value
\* becomes a TagData with that value and no additional fields.
New(i) == [k \in DOMAIN i |-> TagData(i[k], NilMap, NilMap)]

\* Map: tag keys mapped to their values, "" for a nil TagData.
Map(tags) == [k \in DOMAIN tags |-> IF tags[k].isNil THEN "" ELSE tags[k].Value]

\* KeyValueTags.Keys: the tag keys.
KeysOf(tags) == DOMAIN tags

\* reflect.DeepEqual on the values modelled here: a nil map is not an empty one.
DeepEqual(a, b) == a = b

\* A variant that compares the values only.
Equal_ValueOnly(td, other) ==
    IF td.isNil /\ other.isNil THEN TRUE
    ELSE IF td.isNil \/ other.isNil THEN FALSE
    ELSE DeepEqual(td.Value, other.Value)

\* TagData.Equal
Equal(td, other) ==
    IF td.isNil /\ other.isNil THEN TRUE
    ELSE IF td.isNil \/ other.isNil THEN FALSE
    ELSE IF ~DeepEqual(td.AdditionalBoolFields, other.AdditionalBoolFields) THEN FALSE
    ELSE IF ~DeepEqual(td.AdditionalStringFields, other.AdditionalStringFields) THEN FALSE
    ELSE IF ~DeepEqual(td.Value, other.Value) THEN FALSE
    ELSE TRUE

\* A variant that keeps every key.
IgnoreAws_Nothing(tags) == tags

\* A variant that keeps the reserved keys and drops the others.
IgnoreAws_Inverted(tags) == [k \in {x \in DOMAIN tags : HasAwsPrefix(x)} |-> tags[k]]

IgnoreAws(tags) == [k \in {x \in DOMAIN tags : ~HasAwsPrefix(x)} |-> tags[k]]

\* A variant that returns every old key.
Removed_All(tags, newTags) == tags

Removed(tags, newTags) ==
    [k \in {x \in DOMAIN tags : x \notin DOMAIN newTags} |-> tags[k]]

Updated(tags, newTags) ==
    [k \in {x \in DOMAIN newTags : x \notin DOMAIN tags \/ ~Equal(tags[x], newTags[x])}
        |-> newTags[k]]

\* IgnoreConfig: a nil configuration filters nothing; otherwise the keys with
\* an ignored prefix and the ignored keys go.
IgnorePrefixes(tags, prefixes) ==
    [k \in {x \in DOMAIN tags :
                ~(\E p \in prefixes : p = AwsTagKeyPrefix /\ HasAwsPrefix(x))} |-> tags[k]]

Ignore(tags, ignoreTags) ==
    [k \in {x \in DOMAIN tags : x \notin ignoreTags} |-> tags[k]]

IgnoreConfig(tags, config) ==
    IF config.isNil THEN tags
    ELSE Ignore(IgnorePrefixes(tags, config.KeyPrefixes), config.Keys)

\* Client() builds the AWSClient without an IgnoreTagsConfig: it is nil.
IgnoreTagsConfig == [isNil |-> TRUE, Keys |-> {}, KeyPrefixes |-> {}]

----------------------------------------------------------------------------
(* The Parameter Store (ssmconn) *)

Absent ==
    [exists |-> FALSE, value |-> "", tier |-> ParameterTierStandard,
     dataType |-> "text", tags |-> NoTags]

\* One call of a handler to a remote service, as recorded in last.calls.
Call(api, arg, out) == [api |-> api, arg |-> arg, out |-> out]

\* ssm PutParameter on the store st.  An existing entry is replaced only
\* with Overwrite; an Advanced entry cannot be downgraded in place; a write
\* without a tier keeps the entry's tier (Standard for a new entry).  `fault`
\* is what the service answers instead when it rejects the call.
PutParameter(st, in, fault) ==
    LET e == st[in.Name]
        tier == IF in.Tier = "nil"
                THEN (IF e.exists THEN e.tier ELSE ParameterTierStandard)
                ELSE in.Tier
        out == IF fault # "none" THEN fault
               ELSE IF e.exists /\ ~in.Overwrite THEN "ParameterAlreadyExists"
               ELSE IF e.exists /\ e.tier = ParameterTierAdvanced
                       /\ tier = ParameterTierStandard THEN "ValidationException"
               ELSE "ok"
        written == [exists |-> TRUE, value |-> in.Value, tier |-> tier,
                    dataType |-> in.DataType,
                    tags |-> e.tags]
    IN  [out |-> out,
         store |-> IF out = "ok" THEN [st EXCEPT ![in.Name] = written] ELSE st]

\* ssm DeleteParameter.
DeleteParameter(st, name, fault) ==
    LET out == IF fault # "none" THEN fault
               ELSE IF ~st[name].exists THEN "ParameterNotFound"
               ELSE "ok"
    IN  [out |-> out,
         store |-> IF out = "ok" THEN [st EXCEPT ![name] = Absent] ELSE st]

\* ssm RemoveTagsFromResource and AddTagsToResource.
RemoveTagsFromResource(st, name, keys, fault) ==
    LET e == st[name]
        out == IF fault # "none" THEN fault ELSE "ok"
        kept == [k \in (DOMAIN e.tags) \ keys |-> e.tags[k]]
    IN  [out |-> out,
         store |-> IF out = "ok" THEN [st EXCEPT ![name].tags = kept] ELSE st]

AddTagsToResource(st, name, tags, fault) ==
    LET e == st[name]
        out == IF fault # "none" THEN fault ELSE "ok"
        merged == [k \in (DOMAIN e.tags) \cup (DOMAIN tags) |->
                      IF k \in DOMAIN tags THEN tags[k] ELSE e.tags[k]]
    IN  [out |-> out,
         store |-> IF out = "ok" THEN [st EXCEPT ![name].tags = merged] ELSE st]

----------------------------------------------------------------------------
(* schema.ResourceData *)

\* No saved state: the resource is not managed (the Id is empty).
NoState ==
    [id |-> "", name |-> "", tier |-> ParameterTierStandard,
     encrypted_value |-> "", encryption_key |-> "", overwrite |-> "unset",
     data_type |-> "", tags |-> NoTags, tainted |-> FALSE]

\* The data Create runs on: the declared values, no Id.
DataForCreate(cfg) ==
    [id |-> "", name |-> cfg.name, tier |-> cfg.tier,
     encrypted_value |-> cfg.encrypted_value,
     encryption_key |-> cfg.encryption_key, overwrite |-> cfg.overwrite,
     data_type |-> cfg.data_type, tags |-> cfg.tags, tainted |-> FALSE]

\* The data Update runs on: the declared values over the saved state.
DataForUpdate(s, cfg) ==
    [s EXCEPT !.name = cfg.name, !.tier = cfg.tier,
              !.encrypted_value = cfg.encrypted_value,
              !.encryption_key = cfg.encryption_key,
              !.overwrite = cfg.overwrite,
              !.data_type = cfg.data_type, !.tags = cfg.tags]

\* The attributes a plan compares between the saved state and the declaration.
Differs(s, cfg) ==
    \/ s.name # cfg.name
    \/ s.tier # cfg.tier
    \/ s.encrypted_value # cfg.encrypted_value
    \/ s.encryption_key # cfg.encryption_key
    \/ s.overwrite # cfg.overwrite
    \/ s.data_type # cfg.data_type
    \/ s.tags # cfg.tags

\* A variant that records another name than the one given.
SetId_OtherName(d, v) == [d EXCEPT !.id = CHOOSE n \in Names : n # v]

\* d.SetId: the identity of the record; "" clears it.
SetId(d, v) == [d EXCEPT !.id = v]

\* A variant that forces a new resource on any change of tier.
TierForcesNew_AnyChange(old, new) == old # new

\* name is ForceNew; CustomizeDiff forces a new resource when tier goes from
\* Advanced to Standard.
TierForcesNew(old, new) ==
    old = ParameterTierAdvanced /\ new = ParameterTierStandard

RequiresNew(s, cfg) ==
    \/ s.name # cfg.name
    \/ (s.tier # cfg.tier /\ TierForcesNew(s.tier, cfg.tier))

\* A variant that obeys the lifecycle whatever the caller says.
shouldUpdate_Lifecycle(d, isNew) == ~isNew

\* A variant that overwrites whatever the lifecycle and the caller say.
shouldUpdate_Always(d, isNew) == TRUE

\* shouldUpdateSsmParameter: the caller's preference when there is one, else
\* overwrite only a resource that is not new.
shouldUpdateSsmParameter(d, isNew) ==
    IF d.overwrite # "unset" THEN d.overwrite = "true"
    ELSE ~isNew

----------------------------------------------------------------------------
(* resourceAwsSsmParameterRead *)

\* The answer of the i-th GetParameter of one Read: the first in.nf fetches
\* do not find the entry yet, the later ones answer in.lastAns.
Answer(in, i) == IF i <= in.nf THEN "ParameterNotFound" ELSE in.lastAns

\* A variant that retries every not-found.
Retryable_AnyNotFound(d, isNew, ans) == ans = "ParameterNotFound"

\* The condition under which the retry function asks for another fetch.
Retryable(d, isNew, ans) ==
    ans = "ParameterNotFound" /\ isNew /\ d.data_type = DataTypeImage

\* resource.Retry around the fetch.  It ends with the first answer that is
\* not retryable; when the window closes after in.window retryable answers
\* it returns the last retryable error; when the first fetch has not
\* answered as the window closes it returns a timeout without a last error.
\* n is the number of fetches issued.
RECURSIVE RetryLoop(_, _, _, _)
RetryLoop(d, isNew, in, i) ==
    IF in.hang THEN [err |-> "timeout", n |-> 1]
    ELSE IF Retryable(d, isNew, Answer(in, i))
         THEN IF i < in.window THEN RetryLoop(d, isNew, in, i + 1)
              ELSE [err |-> "retryable", n |-> i]
         ELSE [err |-> Answer(in, i), n |-> i]

\* A variant that takes every expiry of the window for a timeout.
isResourceTimeoutError_AnyExpiry(err) == err \in {"timeout", "retryable"}

\* isResourceTimeoutError: a TimeoutError without a last error, which is what
\* resource.Retry returns only when no fetch had answered.
isResourceTimeoutError(err) == err = "timeout"

\* The fetch of Read: the retry loop and, after a timeout, one more fetch.
\* Returns the error of the fetch ("ok": none) and the calls issued.
Fetch(d, isNew, in) ==
    LET loop == RetryLoop(d, isNew, in, 1)
        loopCalls == [i \in 1..loop.n |->
                        Call("GetParameter", [Name |-> d.id, site |-> "retry"],
                             IF in.hang THEN "no answer" ELSE Answer(in, i))]
    IN  IF isResourceTimeoutError(loop.err)
        THEN [err |-> Answer(in, 1),
              calls |-> Append(loopCalls,
                               Call("GetParameter", [Name |-> d.id, site |-> "final"],
                                    Answer(in, 1)))]
        ELSE [err |-> loop.err, calls |-> loopCalls]

\* A variant that forgets the entry whether or not the resource is new.
NotFoundGone_Any(err, isNew) == err = "ParameterNotFound"

\* The entry is gone: the fetch did not find it and the resource is not new.
NotFoundGone(err, isNew) == err = "ParameterNotFound" /\ ~isNew

\* A variant that forgets the entry only when the resource is not new.
DescribeGone_NotNew(desc, isNew) == desc = "empty" /\ ~isNew

\* The entry is gone for the describe call: it matched no record, whether
\* or not the resource is new.
DescribeGone(desc, isNew) == desc = "empty"

\* A variant that shows the stored plaintext when the two differ.
ShownValue_Plain(d, plaintext, encValue) ==
    IF plaintext = encValue THEN d.encrypted_value ELSE encValue

\* A variant that always keeps the declared value.
ShownValue_Keep(d, plaintext, encValue) == d.encrypted_value

\* A variant with the comparison the wrong way round.
ShownValue_Inverted(d, plaintext, encValue) ==
    IF plaintext # encValue THEN d.encrypted_value ELSE Sentinel

\* The value Read shows for encrypted_value: the declared one when the
\* decrypted plaintext is the stored one, the sentinel otherwise.
ShownValue(d, plaintext, encValue) ==
    IF plaintext = encValue THEN d.encrypted_value ELSE Sentinel

\* Read on the data d against the store st.  in: the answers of the services.
\* Returns the data as Read leaves it, the error, and the calls issued.
Read(d, isNew, st, in) ==
    LET fetch == Fetch(d, isNew, in)
        err1 == fetch.err
        calls1 == fetch.calls
        param == st[d.id]
        name == d.id
        encValue == param.value
        base64Blob == Base64Decode(d.encrypted_value)
        result == KmsDecrypt(d.encryption_key, base64Blob.blob, in.kmsUp)
        calls2 == Append(calls1,
                         Call("Decrypt", [KeyId |-> d.encryption_key,
                                          CiphertextBlob |-> base64Blob.blob],
                              IF result.ok THEN "ok" ELSE "error"))
        d2 == [d EXCEPT !.name = name,
                        !.encrypted_value = ShownValue(d, result.plaintext, encValue)]
        calls3 == Append(calls2, Call("DescribeParameters", [Name |-> name], in.desc))
        d3 == [d2 EXCEPT !.tier = param.tier, !.data_type = param.dataType]
        calls4 == Append(calls3,
                         Call("ListTagsForResource", [ResourceId |-> name],
                              IF in.tagsUp THEN "ok" ELSE "error"))
        tags == New(param.tags)
        d4 == [d3 EXCEPT !.tags = Map(IgnoreConfig(IgnoreAws(tags), IgnoreTagsConfig))]
    IN  IF NotFoundGone(err1, isNew)
        THEN [d |-> SetId(d, ""), err |-> "", calls |-> calls1]
        ELSE IF err1 # "ok"
        THEN [d |-> d, err |-> "error reading SSM Parameter", calls |-> calls1]
        ELSE IF ~base64Blob.ok
        THEN [d |-> d, err |-> "illegal base64 data", calls |-> calls1]
        ELSE IF ~result.ok
        THEN [d |-> d, err |-> "Error decrypting with KMS", calls |-> calls2]
        ELSE IF in.desc = "error"
        THEN [d |-> d2, err |-> "error describing SSM parameter", calls |-> calls3]
        ELSE IF DescribeGone(in.desc, isNew)
        THEN [d |-> SetId(d2, ""), err |-> "", calls |-> calls3]
        ELSE IF ~in.tagsUp
        THEN [d |-> d3, err |-> "error listing tags for SSM Parameter", calls |-> calls4]
        ELSE [d |-> d4, err |-> "", calls |-> calls4]

\* The answers the services can give to one Read: "ok" needs the entry to be
\* in the store (there); a fetch can miss an entry that is there (validation
\* after creation is asynchronous), and a describe can come back empty.
\* Answers that no call of the run sees are fixed, so that each run is drawn
\* once.  b64: the declared value decodes.
ReadInputsFor(there, b64) ==
    { in \in [hang : BOOLEAN, nf : 0..MaxPolls, window : 1..MaxPolls,
              lastAns : {"ok", "ParameterNotFound", "InternalServerError"},
              kmsUp : BOOLEAN,
              desc : {"ok", "empty", "error"},
              tagsUp : BOOLEAN] :
        /\ in.lastAns = "ok" => there
        /\ in.desc = "ok" => there
        /\ in.hang => in.window = 1 /\ in.nf <= 1
        /\ in.hang /\ in.nf = 1 => in.lastAns = "InternalServerError"
        /\ ~in.hang /\ in.nf > 0 => in.lastAns # "ParameterNotFound"
        /\ (in.lastAns # "ok" \/ (in.hang /\ in.nf > 0) \/ in.nf >= in.window)
               => in.kmsUp /\ in.desc = "error" /\ in.tagsUp
        /\ ~b64 => in.kmsUp
        /\ (~b64 \/ ~in.kmsUp) => in.desc = "error"
        /\ in.desc # "ok" => in.tagsUp }

ReadInputsTable ==
    [there \in BOOLEAN, b64 \in BOOLEAN |-> ReadInputsFor(there, b64)]

ReadInputs(st, id, d) ==
    ReadInputsTable[st[id].exists, Base64Decode(d.encrypted_value).ok]

----------------------------------------------------------------------------
(* SsmUpdateTags *)

\* Reconciles the tags of `identifier` from oldTagsMap to newTagsMap on the
\* store st.  in.rm and in.add are the faults of the two calls.
SsmUpdateTags(st, identifier, oldTagsMap, newTagsMap, in) ==
    LET oldTags == New(oldTagsMap)
        newTags == New(newTagsMap)
        removedTags == Removed(oldTags, newTags)
        doRemove == Cardinality(DOMAIN removedTags) > 0
        rm == RemoveTagsFromResource(st, identifier,
                                     KeysOf(IgnoreAws(removedTags)), in.rm)
        rmCalls == IF doRemove
                   THEN <<Call("RemoveTagsFromResource",
                               [ResourceId |-> identifier,
                                TagKeys |-> KeysOf(IgnoreAws(removedTags))], rm.out)>>
                   ELSE <<>>
        st1 == IF doRemove THEN rm.store ELSE st
        updatedTags == Updated(oldTags, newTags)
        doAdd == Cardinality(DOMAIN updatedTags) > 0
        add == AddTagsToResource(st1, identifier, Map(IgnoreAws(updatedTags)), in.add)
        addCalls == IF doAdd
                    THEN <<Call("AddTagsToResource",
                                [ResourceId |-> identifier,
                                 Tags |-> Map(IgnoreAws(updatedTags))], add.out)>>
                    ELSE <<>>
    IN  IF doRemove /\ rm.out # "ok"
        THEN [err |-> "error untagging resource", store |-> st1, calls |-> rmCalls]
        ELSE IF doAdd /\ add.out # "ok"
        THEN [err |-> "error tagging resource", store |-> st1, calls |-> rmCalls \o addCalls]
        ELSE [err |-> "", store |-> IF doAdd THEN add.store ELSE st1,
              calls |-> rmCalls \o addCalls]

----------------------------------------------------------------------------
(* resourceAwsSsmParameterPut *)

\* A variant that repeats the write without a tier after any failure.
PutWrite_RetryAny(st, paramInput, in) ==
    LET w1 == PutParameter(st, paramInput, in.w1)
        paramInput2 == [paramInput EXCEPT !.Tier = "nil"]
        w2 == PutParameter(w1.store, paramInput2, in.w2)
    IN  IF w1.out # "ok"
        THEN [err |-> w2.out, store |-> w2.store,
              calls |-> <<Call("PutParameter", paramInput, w1.out),
                          Call("PutParameter", paramInput2, w2.out)>>]
        ELSE [err |-> w1.out, store |-> w1.store,
              calls |-> <<Call("PutParameter", paramInput, w1.out)>>]

\* The write of Put: PutParameter, repeated once without a tier when the
\* store answers that the tier is not supported.  Returns the error of the
\* write ("ok": none), the store and the calls issued.
PutWrite(st, paramInput, in) ==
    LET w1 == PutParameter(st, paramInput, in.w1)
        paramInput2 == [paramInput EXCEPT !.Tier = "nil"]
        w2 == PutParameter(w1.store, paramInput2, in.w2)
    IN  IF w1.out = "TierNotSupported"
        THEN [err |-> w2.out, store |-> w2.store,
              calls |-> <<Call("PutParameter", paramInput, w1.out),
                          Call("PutParameter", paramInput2, w2.out)>>]
        ELSE [err |-> w1.out, store |-> w1.store,
              calls |-> <<Call("PutParameter", paramInput, w1.out)>>]

\* A variant that never sees a change.
HasChange_Never(old, new) == FALSE

\* d.HasChange("tags"): the declared tags are not those of the saved state.
HasChange(old, new) == old # new

\* Put on the data d (oldTags: the tags of the saved state, for HasChange)
\* against the store st.  in: the answers of the services.  Returns the data
\* as Put leaves it, the error, the calls issued and the store.
Put(d, oldTags, isNew, st, in) ==
    LET base64Blob == Base64Decode(d.encrypted_value)
        result == KmsDecrypt(d.encryption_key, base64Blob.blob, in.kmsUp)
        calls0 == <<Call("Decrypt", [KeyId |-> d.encryption_key,
                                     CiphertextBlob |-> base64Blob.blob],
                         IF result.ok THEN "ok" ELSE "error")>>
        paramInput == [Name |-> d.name, Tier |-> d.tier,
                       Value |-> result.plaintext,
                       Overwrite |-> shouldUpdateSsmParameter(d, isNew),
                       DataType |-> d.data_type]
        w == PutWrite(st, paramInput, in)
        calls2 == calls0 \o w.calls
        err2 == w.err
        st2 == w.store
        name == d.name
        hasTagChange == HasChange(oldTags, d.tags)
        tg == SsmUpdateTags(st2, name, oldTags, d.tags, in)
        calls3 == IF hasTagChange THEN calls2 \o tg.calls ELSE calls2
        st3 == IF hasTagChange THEN tg.store ELSE st2
        d4 == SetId(d, d.name)
        rd == Read(d4, isNew, st3, in.read)
    IN  IF ~base64Blob.ok
        THEN [d |-> d, err |-> "illegal base64 data", calls |-> <<>>, store |-> st]
        ELSE IF ~result.ok
        THEN [d |-> d, err |-> "Error decrypting with KMS", calls |-> calls0, store |-> st]
        ELSE IF err2 # "ok"
        THEN [d |-> d, err |-> "error creating SSM parameter", calls |-> calls2,
              store |-> st2]
        ELSE IF hasTagChange /\ tg.err # ""
        THEN [d |-> d, err |-> "error updating SSM Parameter tags", calls |-> calls3,
              store |-> st3]
        ELSE [d |-> rd.d, err |-> rd.err, calls |-> calls3 \o rd.calls, store |-> st3]

\* The faults a write to the store can answer with.
WriteFaults == {"none", "TierNotSupported", "InternalServerError"}
TagFaults == {"none", "InternalServerError"}

\* The answers the services can give to the calls of one Put before its
\* trailing Read.  Answers that no call of the run sees are fixed.  b64: the
\* declared value decodes; rmv, upd: there are removed, updated tags.
PutFaultsFor(b64, rmv, upd) ==
    { f \in [kmsUp : BOOLEAN, w1 : WriteFaults, w2 : WriteFaults,
             rm : TagFaults, add : TagFaults] :
        /\ ~b64 => f.kmsUp
        /\ ~f.kmsUp => f.w1 = "none"
        /\ f.w1 # "TierNotSupported" => f.w2 = "none"
        /\ (f.w1 = "InternalServerError" \/ f.w2 # "none")
               => f.rm = "none" /\ f.add = "none"
        /\ ~rmv => f.rm = "none"
        /\ (~upd \/ f.rm # "none") => f.add = "none" }

PutFaultsTable ==
    [b64 \in BOOLEAN, rmv \in BOOLEAN, upd \in BOOLEAN |-> PutFaultsFor(b64, rmv, upd)]

PutFaults(d, oldTags) ==
    PutFaultsTable[Base64Decode(d.encrypted_value).ok,
                   oldTags # d.tags, oldTags # d.tags]

\* The answers given to a Read that is never reached.
NoRead ==
    [hang |-> FALSE, nf |-> 0, window |-> 1, lastAns |-> "InternalServerError",
     kmsUp |-> TRUE, desc |-> "error", tagsUp |-> TRUE]

\* A Put with the faults f gets as far as its trailing Read.
ReachesRead(d, f) ==
    /\ Base64Decode(d.encrypted_value).ok
    /\ f.kmsUp
    /\ KmsDecrypt(d.encryption_key, Base64Decode(d.encrypted_value).blob, TRUE).ok
    /\ f.w1 # "InternalServerError"
    /\ f.rm = "none" /\ f.add = "none"

\* The answers given to the trailing Read of a Put.
TrailingReadInputs(d, f) ==
    IF ReachesRead(d, f) THEN ReadInputsTable[TRUE, TRUE] ELSE {NoRead}

\* The answers to one Put: its faults and the answers to its trailing Read.
PutInput(f, r) ==
    [kmsUp |-> f.kmsUp, w1 |-> f.w1, w2 |-> f.w2, rm |-> f.rm, add |-> f.add,
     read |-> r]

----------------------------------------------------------------------------
(* resourceAwsSsmParameterDelete *)

\* A variant that takes an entry that is already gone for deleted.
Delete_TolerateNotFound(d, st, fault) ==
    LET del == DeleteParameter(st, d.name, fault)
    IN  [err |-> IF del.out \in {"ok", "ParameterNotFound"} THEN ""
                 ELSE "error deleting SSM Parameter",
         calls |-> <<Call("DeleteParameter", [Name |-> d.name], del.out)>>,
         store |-> del.store]

\* Delete on the data d against the store st: one DeleteParameter by name,
\* any error of which is returned.
Delete(d, st, fault) ==
    LET del == DeleteParameter(st, d.name, fault)
    IN  [err |-> IF del.out = "ok" THEN "" ELSE "error deleting SSM Parameter",
         calls |-> <<Call("DeleteParameter", [Name |-> d.name], del.out)>>,
         store |-> del.store]

----------------------------------------------------------------------------
(* The declaration and the lifecycle *)

\* The declaration the caller starts from (the example main.tf).
BaseConfig ==
    [name |-> "/a/b", tier |-> ParameterTierStandard,
     encrypted_value |-> "b64(k1:p1)", encryption_key |-> "k1",
     overwrite |-> "unset", data_type |-> "text", tags |-> NoTags]

\* The declarations a run starts from: the example, in either tier.
InitConfigs == {[BaseConfig EXCEPT !.tier = t] : t \in Tiers}

\* The declarations one edit of cfg leads to.
OneEdit(cfg) ==
    ({[cfg EXCEPT !.name = v] : v \in Names}
        \cup {[cfg EXCEPT !.tier = v] : v \in Tiers}
        \cup {[cfg EXCEPT !.encrypted_value = v] : v \in EncValues}
        \cup {[cfg EXCEPT !.encryption_key = v] : v \in Keys}
        \cup {[cfg EXCEPT !.overwrite = v] : v \in Overwrites}
        \cup {[cfg EXCEPT !.data_type = v] : v \in DataTypes}) \ {cfg}

\* No handler run is waiting to be taken note of.
NoOp == [op |-> "none", err |-> "", calls |-> <<>>, isNew |-> FALSE,
         forReplace |-> FALSE, d |-> NoState]

\* What a handler run leaves in `last`: the handler, the data it ran on, the
\* error it returned and the calls it issued.
Ran(op, isNew, forReplace, d, err, calls) ==
    [op |-> op, err |-> err, calls |-> calls, isNew |-> isNew,
     forReplace |-> forReplace, d |-> d]

\* A variant that drops the record when the handler failed.
SavedAfterPut_DropOnError(res, isNew) ==
    IF res.d.id = "" \/ res.err # "" THEN NoState ELSE res.d

\* The state saved after Create or Update: none while the Id is empty, the
\* data as the handler left it otherwise; a Create that failed with the Id
\* set leaves the resource tainted.
SavedAfterPut(res, isNew) ==
    IF res.d.id = "" THEN NoState
    ELSE [res.d EXCEPT !.tainted = (isNew /\ res.err # "")]

\* The state saved after Read: the old state when Read failed, none when it
\* cleared the Id, the data as Read left it otherwise.
SavedAfterRead(old, res) ==
    IF res.err # "" THEN old
    ELSE IF res.d.id = "" THEN NoState
    ELSE res.d

Init ==
    /\ store = [n \in Names |-> Absent]
    /\ state = NoState
    /\ declared \in InitConfigs
    /\ last = NoOp
    /\ untouched = FALSE
    /\ replacing = FALSE
    /\ nEnv = 0
    /\ nDecl = 0

\* Operations on one record are serialized: the next one starts when the
\* result of the last one has been taken note of.
Idle == last.op = "none"

\* The caller takes note of the result of the last handler run.
Return ==
    /\ ~Idle
    /\ last' = NoOp
    /\ UNCHANGED <<store, state, declared, untouched, replacing, nEnv, nDecl>>

\* The caller edits the declaration.
Declare ==
    /\ Idle
    /\ nDecl < MaxDecl
    /\ ~replacing
    /\ \E cfg \in OneEdit(declared) : declared' = cfg
    /\ nDecl' = nDecl + 1
    /\ UNCHANGED <<store, state, last, untouched, replacing, nEnv>>

\* Create: Put on a record that is not managed yet.
Create ==
    /\ Idle
    /\ state.id = ""
    /\ LET d == DataForCreate(declared)
       IN  \E f \in PutFaults(d, NoTags) :
           \E r \in TrailingReadInputs(d, f) :
               \E res \in {Put(d, NoTags, TRUE, store, PutInput(f, r))} :
                   /\ store' = res.store
                   /\ state' = SavedAfterPut(res, TRUE)
                   /\ last' = Ran("Create", TRUE, FALSE, d, res.err, res.calls)
                   /\ untouched' = (res.err = "")
    /\ replacing' = FALSE
    /\ UNCHANGED <<declared, nEnv, nDecl>>

\* Update: Put on a managed record whose declaration changed in place.
Update ==
    /\ Idle
    /\ state.id # ""
    /\ ~state.tainted
    /\ Differs(state, declared)
    /\ ~RequiresNew(state, declared)
    /\ LET d == DataForUpdate(state, declared)
       IN  \E f \in PutFaults(d, state.tags) :
           \E r \in TrailingReadInputs(d, f) :
               \E res \in {Put(d, state.tags, FALSE, store, PutInput(f, r))} :
                   /\ store' = res.store
                   /\ state' = SavedAfterPut(res, FALSE)
                   /\ last' = Ran("Update", FALSE, FALSE, d, res.err, res.calls)
                   /\ untouched' = (res.err = "")
    /\ UNCHANGED <<declared, replacing, nEnv, nDecl>>

\* A variant whose Read writes the declared secret back when it finds
\* another one stored.
Refresh_Repairing ==
    /\ Idle
    /\ state.id # ""
    /\ \E in \in ReadInputs(store, state.id, state) :
           \E res \in {Read(state, FALSE, store, in)} :
               /\ state' = SavedAfterRead(state, res)
               /\ last' = Ran("Read", FALSE, FALSE, state, res.err, res.calls)
               /\ store' = IF res.err = "" /\ res.d.id # ""
                                /\ res.d.encrypted_value = Sentinel
                            THEN [store EXCEPT ![state.id].value = "p1"]
                            ELSE store
    /\ UNCHANGED <<declared, untouched, replacing, nEnv, nDecl>>

\* Refresh: Read on the saved state.
Refresh ==
    /\ Idle
    /\ state.id # ""
    /\ \E in \in ReadInputs(store, state.id, state) :
           \E res \in {Read(state, FALSE, store, in)} :
               /\ state' = SavedAfterRead(state, res)
               /\ last' = Ran("Read", FALSE, FALSE, state, res.err, res.calls)
    /\ UNCHANGED <<store, declared, untouched, replacing, nEnv, nDecl>>

\* The Delete handler on the saved state; forReplace: as the first half of a
\* replacement.  The state is dropped when Delete succeeds.
RunDelete(forReplace) ==
    \E fault \in {"none", "InternalServerError"} :
        \E res \in {Delete(state, store, fault)} :
            /\ store' = res.store
            /\ state' = IF res.err = "" THEN NoState ELSE state
            /\ last' = Ran("Delete", FALSE, forReplace, state, res.err, res.calls)
            /\ untouched' = FALSE
            /\ replacing' = (forReplace /\ res.err = "")

\* Replace: the declaration changed in a way that forces a new resource, or
\* the resource is tainted; the old one is deleted, then Create runs.
Replace ==
    /\ Idle
    /\ state.id # ""
    /\ (state.tainted \/ RequiresNew(state, declared))
    /\ RunDelete(TRUE)
    /\ UNCHANGED <<declared, nEnv, nDecl>>

\* Destroy: the caller removed the declaration (and may declare it again).
Destroy ==
    /\ Idle
    /\ state.id # ""
    /\ RunDelete(FALSE)
    /\ UNCHANGED <<declared, nEnv, nDecl>>

\* The names the handlers of this record can touch: the declared one and the
\* one the saved state holds.  What other writers do under any other name
\* commutes with every handler run, so they act on these.
NamesInUse == {declared.name} \cup (IF state.id = "" THEN {} ELSE {state.name})

\* Another writer puts a value under a name, creating or replacing the entry.
OtherWrite ==
    /\ Idle
    /\ nEnv < MaxEnv
    /\ \E n \in NamesInUse, v \in Plaintexts :
           /\ store[n].value # v
           /\ store' = [store EXCEPT ![n].exists = TRUE, ![n].value = v]
    /\ untouched' = FALSE
    /\ nEnv' = nEnv + 1
    /\ UNCHANGED <<state, declared, last, replacing, nDecl>>

\* Another writer deletes an entry.
OtherDelete ==
    /\ Idle
    /\ nEnv < MaxEnv
    /\ \E n \in NamesInUse :
           /\ store[n].exists
           /\ store' = [store EXCEPT ![n] = Absent]
    /\ untouched' = FALSE
    /\ nEnv' = nEnv + 1
    /\ UNCHANGED <<state, declared, last, replacing, nDecl>>

Next ==
    \/ Return
    \/ Declare
    \/ Create
    \/ Update
    \/ Refresh
    \/ Replace
    \/ Destroy
    \/ OtherWrite
    \/ OtherDelete

Spec == Init /\ [][Next]_vars

\* A step is a run of the named handler: `last` names the handler that ran,
\* and only that handler's action writes its name there.
CreateStep == Idle /\ last'.op = "Create"
UpdateStep == Idle /\ last'.op = "Update"
ReadStep == Idle /\ last'.op = "Read"
ReplaceStep == Idle /\ last'.op = "Delete" /\ last'.forReplace

----------------------------------------------------------------------------
(* Properties *)

\* The calls of the last handler run to one API.
CallsTo(api) == SelectSeq(last.calls, LAMBDA c : c.api = api)

\* The secret a declaration stands for: the plaintext its encrypted_value
\* was made from, when it was made under its encryption_key.
SecretOf(cfg) ==
    CASE cfg.encryption_key = "k1" /\ cfg.encrypted_value = "b64(k1:p1)" -> "p1"
      [] cfg.encryption_key = "k1" /\ cfg.encrypted_value = "b64(k1:p2)" -> "p2"
      [] OTHER -> "none"

LastIsPut == last.op \in {"Create", "Update"}

\* C1, first half: every write of a Put carries the caller's explicit
\* overwrite value when one is set, and otherwise false on Create and true
\* on Update.
C1_FlagSent ==
    LastIsPut =>
        \A i \in 1..Len(last.calls) :
            last.calls[i].api = "PutParameter" =>
                last.calls[i].arg.Overwrite =
                    (CASE last.d.overwrite = "true" -> TRUE
                       [] last.d.overwrite = "false" -> FALSE
                       [] OTHER -> last.op = "Update")

\* C1, second half: a Create with no explicit overwrite on a name the store
\* already holds fails and leaves the store as it was.
C1_CreateDoesNotClobber ==
    (CreateStep /\ declared.overwrite = "unset" /\ store[declared.name].exists)
        => (last'.err # "" /\ store' = store /\ state' = NoState)

\* C1, second half: an Update with no explicit overwrite is never refused
\* because the entry exists, and a write of it that the store accepts
\* puts the declared secret into the store.
C1_UpdateOverwrites ==
    (UpdateStep /\ declared.overwrite = "unset")
        => /\ \A i \in 1..Len(last'.calls) :
                  last'.calls[i].out # "ParameterAlreadyExists"
           /\ (\E i \in 1..Len(last'.calls) :
                  last'.calls[i].api = "PutParameter" /\ last'.calls[i].out = "ok")
                  => store'[declared.name].value = SecretOf(declared)

\* C1: the overwrite flag Put sends is the caller's explicit value, else
\* false for a new record and true for a managed one; so a default Create
\* fails on an existing entry without changing it and a default Update
\* replaces the stored value.
C1_OverwriteGating ==
    /\ [](C1_FlagSent)
    /\ [][C1_CreateDoesNotClobber]_vars
    /\ [][C1_UpdateOverwrites]_vars

\* A default Create was refused by an entry another writer had put there,
\* and that entry still holds the other writer's value.
C1_Witness ==
    /\ last.op = "Create"
    /\ last.d.overwrite = "unset"
    /\ last.err = "error creating SSM parameter"
    /\ \E i \in 1..Len(last.calls) :
           /\ last.calls[i].out = "ParameterAlreadyExists"
           /\ ~last.calls[i].arg.Overwrite
    /\ store[last.d.name].exists
    /\ store[last.d.name].value # SecretOf(last.d)


\* The saved state holds the encrypted_value a Read set: the last Read
\* succeeded, or the trailing Read of the last Put got past its Decrypt call
\* (what a Read that fails leaves is not saved, what a Put leaves is).
ReadShowedValue ==
    \/ last.op = "Read" /\ last.err = ""
    \/ LastIsPut /\ Len(CallsTo("Decrypt")) = 2 /\ CallsTo("Decrypt")[2].out = "ok"

\* The attributes of the saved state that hold text.
ObservedTexts(s) ==
    {s.id, s.name, s.tier, s.encrypted_value, s.encryption_key, s.overwrite,
     s.data_type} \cup {s.tags[k] : k \in DOMAIN s.tags}

\* C2, as a state predicate: no attribute of the saved state, and none of
\* the data the last handler ran on, is a plaintext; encrypted_value is a
\* declared ciphertext text or the sentinel.
C2_NoPlaintextHeld ==
    /\ ObservedTexts(state) \cap Plaintexts = {}
    /\ ObservedTexts(last.d) \cap Plaintexts = {}
    /\ state.id # "" => state.encrypted_value \in EncValues \cup {Sentinel}

\* C2, step by step: the encrypted_value a step leaves in the saved state is
\* the one it found there, the declared one, or the sentinel.
C2_OnlyDeclaredOrSentinel ==
    state'.id # "" =>
        state'.encrypted_value \in
            {state.encrypted_value, declared.encrypted_value, Sentinel}

\* C2: after any sequence of Create, Read, Update and Delete, failing runs
\* included, no observed field holds the plaintext of the secret, and the
\* observed encrypted_value is only ever the declared ciphertext or the
\* sentinel.
C2_NoPlaintextLeak ==
    /\ [](C2_NoPlaintextHeld)
    /\ [][C2_OnlyDeclaredOrSentinel]_vars

\* A Read found the stored plaintext changed and shows the sentinel, while
\* the store holds a plaintext.
C2_Witness ==
    /\ last.op = "Read"
    /\ last.err = ""
    /\ state.id # ""
    /\ state.encrypted_value = Sentinel
    /\ store[state.id].value \in Plaintexts

\* C3: a Read that fetched the entry and decrypted the declared value shows
\* the declared ciphertext, unchanged, exactly when the decrypted plaintext
\* is the plaintext the store holds, and the sentinel whenever they differ.
C3_ShownValue ==
    (ReadShowedValue /\ state.id # "") =>
        /\ SecretOf(last.d) \in Plaintexts
        /\ (SecretOf(last.d) = store[state.id].value
               => state.encrypted_value = last.d.encrypted_value)
        /\ (SecretOf(last.d) # store[state.id].value
               => state.encrypted_value = Sentinel)
        /\ last.d.encrypted_value # Sentinel

\* A Read ran on the declared value of p1 while the store held p2, and shows
\* the sentinel.
C3_Witness ==
    /\ last.op = "Read"
    /\ last.err = ""
    /\ state.id # ""
    /\ SecretOf(last.d) = "p1"
    /\ store[state.id].value = "p2"
    /\ state.encrypted_value = Sentinel

\* C4, the Put: a Put that succeeded shows the declared encrypted_value.
C4_PutShowsDeclared ==
    (LastIsPut /\ last.err = "" /\ state.id # "") =>
        /\ state.encrypted_value = declared.encrypted_value
        /\ state.encrypted_value # Sentinel
        /\ untouched

\* C4, the Read: a Read of the record a Put left, with no other writer in
\* between, keeps the encrypted_value it found, which is not the sentinel.
C4_ReadKeepsDeclared ==
    (ReadStep /\ untouched /\ state'.id # "") =>
        /\ state'.encrypted_value = state.encrypted_value
        /\ state'.encrypted_value # Sentinel
        /\ untouched'

\* C4: a Put followed by a Read of the same unchanged record, with no other
\* writer touching the store in between, leaves the observed
\* encrypted_value equal to the declared one, not the sentinel.
C4_PutThenRead ==
    /\ [](C4_PutShowsDeclared)
    /\ [][C4_ReadKeepsDeclared]_vars

\* A Read after a Put, with no other writer in between, succeeded and shows
\* the declared value.
C4_Witness ==
    /\ last.op = "Read"
    /\ last.err = ""
    /\ untouched
    /\ state.id # ""
    /\ state.encrypted_value = declared.encrypted_value
    /\ SecretOf(declared) = store[state.id].value

\* Every call of the last handler run was answered without an error.
AllAnswered == \A i \in 1..Len(last.calls) : last.calls[i].out = "ok"

\* C5, the Read of the pass: a Read on a state that holds the sentinel
\* succeeds when the services answer.
C5_ReadOnSentinelSucceeds ==
    (last.op = "Read" /\ last.d.encrypted_value = Sentinel /\ AllAnswered)
        => last.err = ""

\* C5, the difference: a state that holds the sentinel differs from a
\* declaration of a ciphertext.
C5_DifferenceDetected ==
    (state.id # "" /\ state.encrypted_value = Sentinel) => Differs(state, declared)

\* C5, the Put of the pass: an Update of a state that holds the sentinel
\* that succeeds has written the declared secret and shows the declared
\* ciphertext.
C5_UpdateRestores ==
    (UpdateStep /\ state.encrypted_value = Sentinel /\ last'.err = "" /\ state'.id # "")
        => /\ store'[declared.name].value = SecretOf(declared)
           /\ state'.encrypted_value = declared.encrypted_value

\* C5: once a Read has shown the sentinel, the next reconciliation pass
\* against a correct declaration detects a difference, writes the declared
\* secret and ends with the declared ciphertext observed, and every step of
\* it, the Read on the state holding the sentinel included, succeeds.
C5_SelfCorrects ==
    /\ [](C5_ReadOnSentinelSucceeds)
    /\ [](C5_DifferenceDetected)
    /\ [][C5_UpdateRestores]_vars


\* The last handler run is a Read, or a Put that reached its trailing Read.
RanRead == Len(CallsTo("GetParameter")) > 0

\* The last handler run issued a Decrypt call on its read path, and the
\* service failed it.
ReadDecryptFailed ==
    \/ last.op = "Read"
         /\ \E i \in 1..Len(last.calls) :
                last.calls[i].api = "Decrypt" /\ last.calls[i].out = "error"
    \/ LastIsPut /\ Len(CallsTo("Decrypt")) = 2 /\ CallsTo("Decrypt")[2].out = "error"

\* C6 as claimed: a failure of the Decryption service on the read path does
\* not make Read fail; Read completes and shows the sentinel.
C6_DecryptFailureShowsSentinel ==
    (last.op = "Read" /\ ReadDecryptFailed)
        => (last.err = "" /\ state.encrypted_value = Sentinel)

\* C6 as amended: a failure of the Decryption service on the read path makes
\* Read fail with the decryption error, with no describe or list-tags call
\* and with the data left as it was; so a Read on a declaration whose key
\* cannot decrypt its value never succeeds, and a Read that shows the
\* sentinel has decrypted the declared value.
C6_DecryptFailureFatal ==
    /\ ReadDecryptFailed =>
           /\ last.err = "Error decrypting with KMS"
           /\ Len(CallsTo("DescribeParameters")) = 0
           /\ Len(CallsTo("ListTagsForResource")) = 0
           /\ last.op = "Read" => state = last.d
    /\ (last.op = "Read" /\ SecretOf(last.d) = "none"
            /\ CallsTo("GetParameter")[Len(CallsTo("GetParameter"))].out = "ok")
           => /\ last.err \in {"illegal base64 data", "Error decrypting with KMS"}
              /\ state = last.d
    /\ (last.op = "Read" /\ last.err = "" /\ state.id # ""
            /\ state.encrypted_value = Sentinel)
           => SecretOf(last.d) \in Plaintexts

\* A Read ran on a state whose key does not decrypt its value, and failed
\* with the decryption error.
C6_Witness ==
    /\ last.op = "Read"
    /\ last.d.encryption_key = "k2"
    /\ Base64Decode(last.d.encrypted_value).ok
    /\ ReadDecryptFailed
    /\ last.err = "Error decrypting with KMS"

\* The last fetch of the last handler run.
LastFetch == CallsTo("GetParameter")[Len(CallsTo("GetParameter"))]

\* C7: when the last fetch of a Read answers not-found, a Read of a record
\* that is not new clears the identity and succeeds without a describe or
\* list-tags call; a Read of a new record fails and keeps the identity.
C7_NotFound ==
    (RanRead /\ LastFetch.out = "ParameterNotFound") =>
        /\ ~last.isNew =>
               /\ last.err = ""
               /\ state = NoState
               /\ Len(CallsTo("DescribeParameters")) = 0
               /\ Len(CallsTo("ListTagsForResource")) = 0
               /\ last.calls[Len(last.calls)] = LastFetch
        /\ last.isNew =>
               /\ last.err = "error reading SSM Parameter"
               /\ state.id = last.d.name
               /\ state.id # ""

\* A Read of a managed record did not find the entry: it succeeded and the
\* record is no longer managed.
C7_Witness ==
    /\ last.op = "Read"
    /\ ~last.isNew
    /\ LastFetch.out = "ParameterNotFound"
    /\ last.err = ""
    /\ last.d.id # ""
    /\ state = NoState

\* The writes of the last handler run.
Writes == CallsTo("PutParameter")

\* C8: a Put issues a second write exactly when the first is rejected as
\* tier-unsupported; the second is the first with the tier omitted; a
\* failure of the last write is fatal, a write that succeeds is no write
\* error, and the Put succeeds when every later call is answered; there are
\* never more than two writes.
C8_TierFallback ==
    (LastIsPut /\ Len(Writes) > 0) =>
        /\ Len(Writes) <= 2
        /\ Len(Writes) = 2 <=> Writes[1].out = "TierNotSupported"
        /\ Len(Writes) = 2 =>
               /\ Writes[2].arg = [Writes[1].arg EXCEPT !.Tier = "nil"]
               /\ Writes[1].arg.Tier # "nil"
        /\ Writes[Len(Writes)].out # "ok" =>
               /\ last.err = "error creating SSM parameter"
               /\ last.calls[Len(last.calls)] = Writes[Len(Writes)]
        /\ Writes[Len(Writes)].out = "ok" =>
               /\ last.err # "error creating SSM parameter"
               /\ store[last.d.name].value = Writes[1].arg.Value
               /\ (\A i \in 1..Len(last.calls) :
                       last.calls[i].api # "PutParameter" => last.calls[i].out = "ok")
                      => last.err = ""

\* A Put whose first write was rejected as tier-unsupported and whose second
\* write, without a tier, was accepted, succeeded.
C8_Witness ==
    /\ LastIsPut
    /\ Len(Writes) = 2
    /\ Writes[1].out = "TierNotSupported"
    /\ Writes[2].out = "ok"
    /\ Writes[2].arg.Tier = "nil"
    /\ last.err = ""

NameChanged == state.name # declared.name
TierDowngraded ==
    state.tier = ParameterTierAdvanced /\ declared.tier = ParameterTierStandard

\* C9, the plan: a re-declaration of a managed record needs a new resource
\* exactly when the name changes or the tier goes from Advanced to Standard.
C9_ForcedExactly ==
    (state.id # "" /\ Differs(state, declared)) =>
        (RequiresNew(state, declared) <=> (NameChanged \/ TierDowngraded))

\* C9, the replacement: it runs Delete on a record that is tainted or whose
\* name changed or tier was downgraded, and after a Delete that succeeded
\* the next handler to run is Create.
C9_ReplaceIsDeleteThenCreate ==
    /\ ReplaceStep =>
           /\ (state.tainted \/ NameChanged \/ TierDowngraded)
           /\ last'.op = "Delete"
           /\ Len(last'.calls) = 1 /\ last'.calls[1].api = "DeleteParameter"
           /\ replacing' = (last'.err = "")
           /\ replacing' => state' = NoState
    /\ (replacing /\ Idle /\ ~Idle') => last'.op = "Create"

\* C9, the in-place change: an Update runs on a record whose name is unchanged
\* and whose tier is not downgraded, and issues no delete.
C9_UpdateInPlace ==
    UpdateStep =>
        /\ ~NameChanged /\ ~TierDowngraded /\ ~state.tainted
        /\ last'.op = "Update"
        /\ \A i \in 1..Len(last'.calls) : last'.calls[i].api # "DeleteParameter"
        /\ state'.id \in {"", state.id}

\* C9: a re-declaration is carried out as Delete then Create exactly when
\* the name changes or the tier goes from Advanced to Standard, and as one
\* in-place Put with no Delete for every other change, a tier change from
\* Standard to Advanced included.
C9_Replacement ==
    /\ [](C9_ForcedExactly)
    /\ [][C9_ReplaceIsDeleteThenCreate]_vars
    /\ [][C9_UpdateInPlace]_vars

\* The Delete of a replacement ran because the tier was re-declared from
\* Advanced to Standard under the same name.
C9_Witness ==
    /\ last.op = "Delete"
    /\ last.forReplace
    /\ last.err = ""
    /\ ~last.d.tainted
    /\ last.d.tier = ParameterTierAdvanced
    /\ declared.tier = ParameterTierStandard
    /\ last.d.name = declared.name
    /\ replacing

\* The fetches the retry loop of the last handler run issued.
LoopFetches ==
    SelectSeq(last.calls, LAMBDA c : c.api = "GetParameter" /\ c.arg.site = "retry")

\* C10: the retry loop of Read fetches again only after a not-found on a new
\* record of the machine-image data type; after any other answer, after a
\* not-found on a record that is not new and after a not-found on a new
\* record of another data type it has fetched once.
C10_RetryOnlyNewImage ==
    RanRead =>
        /\ \A i \in 1..(Len(LoopFetches) - 1) :
               /\ LoopFetches[i].out = "ParameterNotFound"
               /\ last.isNew
               /\ last.d.data_type = DataTypeImage
        /\ (~last.isNew \/ last.d.data_type # DataTypeImage) => Len(LoopFetches) = 1
        /\ LoopFetches[1].out # "ParameterNotFound" => Len(LoopFetches) = 1
        /\ Len(LoopFetches) <= MaxPolls

\* The trailing Read of a Create of a machine-image record fetched again
\* after a not-found, and found the entry.
C10_Witness ==
    /\ last.op = "Create"
    /\ last.d.data_type = DataTypeImage
    /\ Len(LoopFetches) = 2
    /\ LoopFetches[1].out = "ParameterNotFound"
    /\ LoopFetches[2].out = "ok"
    /\ last.err = ""


\* The fetches the last handler run issued after its retry loop.
FinalFetches ==
    SelectSeq(last.calls, LAMBDA c : c.api = "GetParameter" /\ c.arg.site = "final")

\* The retry loop of the last Read ended because the window closed while the
\* fetch was answering a retryable not-found.
WindowClosedOnNotFound ==
    /\ RanRead
    /\ Retryable(last.d, last.isNew, LoopFetches[Len(LoopFetches)].out)

\* The retry loop of the last Read ended because the window closed before
\* the fetch had answered.
WindowClosedUnanswered == RanRead /\ LoopFetches[1].out = "no answer"

\* What Read returns on the answer `out` of a fetch that decides it.
DecidedBy(out) ==
    IF out = "ParameterNotFound" /\ ~last.isNew
    THEN last.err = "" /\ state = NoState /\ last.calls[Len(last.calls)].api = "GetParameter"
    ELSE IF out # "ok"
    THEN last.err = "error reading SSM Parameter"
             /\ last.calls[Len(last.calls)].api = "GetParameter"
    ELSE last.err # "error reading SSM Parameter"

\* C11 as claimed: when the window closes on a retryable not-found, Read
\* fetches exactly once more and that fetch decides the result.
C11_FinalFetchAfterWindow ==
    WindowClosedOnNotFound =>
        /\ Len(FinalFetches) = 1
        /\ DecidedBy(FinalFetches[1].out)

\* C11 as amended: when the window closes on a retryable not-found, Read
\* fetches no more and fails with the read error; Read fetches once more,
\* exactly once, only when the window closed before the fetch had answered,
\* and then the answer of that fetch decides the result.
C11_FinalFetchOnlyUnanswered ==
    RanRead =>
        /\ WindowClosedOnNotFound =>
               /\ Len(FinalFetches) = 0
               /\ last.err = "error reading SSM Parameter"
               /\ last.calls[Len(last.calls)] = LoopFetches[Len(LoopFetches)]
               /\ Len(LoopFetches) <= MaxPolls
        /\ WindowClosedUnanswered =>
               /\ Len(LoopFetches) = 1
               /\ Len(FinalFetches) = 1
               /\ DecidedBy(FinalFetches[1].out)
        /\ Len(FinalFetches) > 0 => WindowClosedUnanswered

\* The trailing Read of a Create of a machine-image record was still
\* answered not-found when the window closed: the Create failed with the
\* read error after the fetches of the loop.
C11_Witness ==
    /\ last.op = "Create"
    /\ WindowClosedOnNotFound
    /\ Len(LoopFetches) = MaxPolls
    /\ Len(FinalFetches) = 0
    /\ last.err = "error reading SSM Parameter"
    /\ state.tainted


\* The describe call of the last handler run matched no record.
DescribeEmpty ==
    /\ Len(CallsTo("DescribeParameters")) = 1
    /\ CallsTo("DescribeParameters")[1].out = "empty"

C13_DeleteOnceNoTolerance ==
    last.op = "Delete" =>
        /\ Len(last.calls) = 1
        /\ last.calls[1].api = "DeleteParameter"
        /\ last.calls[1].arg = [Name |-> last.d.name]
        /\ (last.err = "") <=> (last.calls[1].out = "ok")
        /\ last.err # "" => (last.err = "error deleting SSM Parameter" /\ state = last.d)
        /\ last.err = "" =>
               /\ ~store[last.d.name].exists
               /\ state = NoState
               /\ Delete(last.d, store, "none").err = "error deleting SSM Parameter"
               /\ Delete(last.d, store, "none").calls[1].out = "ParameterNotFound"

\* A Delete of a record whose entry another writer had deleted was answered
\* not-found and returned an error.
C13_Witness ==
    /\ last.op = "Delete"
    /\ last.calls[1].out = "ParameterNotFound"
    /\ last.err = "error deleting SSM Parameter"
    /\ state.id # ""


\* The answers of services that answer a Read without a fault.
ReadAnswered ==
    [hang |-> FALSE, nf |-> 0, window |-> 1, lastAns |-> "ok",
     kmsUp |-> TRUE, desc |-> "ok", tagsUp |-> TRUE]

\* The answers of services that answer a Put without a fault, the store
\* supporting the declared tier or not as it did for the last Put.
PutAnsweredAsBefore ==
    [kmsUp |-> TRUE,
     w1 |-> IF Len(Writes) = 2 THEN "TierNotSupported" ELSE "none",
     w2 |-> "none", rm |-> "none", add |-> "none", read |-> ReadAnswered]

\* Put invoked again, on the record the last Put left, with the same
\* declaration.
PutAgain ==
    Put(DataForUpdate(state, declared), state.tags, FALSE, store, PutAnsweredAsBefore)

\* The last handler run was a Put that succeeded and left a managed record.
PutSucceeded == LastIsPut /\ last.err = "" /\ state.id # ""

PutUndecodable == LastIsPut /\ last.d.encrypted_value \notin {"b64(k1:p1)", "b64(k1:p2)"}

\* The Decryption service failed the declared key and blob of the last Put.
PutUndecryptable ==
    /\ LastIsPut
    /\ Len(last.calls) > 0
    /\ last.calls[1].api = "Decrypt"
    /\ last.calls[1].out = "error"

\* C15, the result: a Put whose declared value does not decode returns the
\* decode error having issued no call; a Put whose decryption fails returns
\* the decryption error having issued the one Decrypt call and nothing else.
C15_FatalBeforeAnyWrite ==
    /\ PutUndecodable =>
           /\ last.err = "illegal base64 data"
           /\ last.calls = <<>>
    /\ PutUndecryptable =>
           /\ last.err = "Error decrypting with KMS"
           /\ Len(last.calls) = 1
    /\ (LastIsPut /\ SecretOf(last.d) = "none") =>
           /\ last.err \in {"illegal base64 data", "Error decrypting with KMS"}
           /\ \A i \in 1..Len(last.calls) : last.calls[i].api = "Decrypt"

\* C15, the step: such a Put leaves the store and the identity as they were.
C15_NothingChanged ==
    ((CreateStep \/ UpdateStep)
        /\ last'.err \in {"illegal base64 data", "Error decrypting with KMS"}
        /\ \A i \in 1..Len(last'.calls) : last'.calls[i].api # "PutParameter")
        => /\ store' = store
           /\ state'.id = state.id

\* C15: a Put whose declared value is not base64, or whose decryption fails,
\* returns a fatal error without a retry and without a write, tag or fetch
\* call to the store, and leaves the identity and the store unchanged.
C15_DecodeOrDecryptFatal ==
    /\ [](C15_FatalBeforeAnyWrite)
    /\ [][C15_NothingChanged]_vars

\* An Update to a value that is not base64 failed with the decode error
\* having issued no call, the entry holding the secret of the earlier Put.
C15_Witness ==
    /\ last.op = "Update"
    /\ PutUndecodable
    /\ last.err = "illegal base64 data"
    /\ last.calls = <<>>
    /\ store[state.id].value \in Plaintexts


----------------------------------------------------------------------------
(* The lifecycle of one record whose tags are declared, re-declared and     *)
(* touched by others                                                        *)

\* The tag maps that differ from tags in one key: a tag set, changed or
\* removed.
TagEdits(tags) ==
    {t \in TagMaps :
        Cardinality({k \in TagKeys :
                        \/ (k \in DOMAIN t) # (k \in DOMAIN tags)
                        \/ (k \in DOMAIN t /\ k \in DOMAIN tags /\ t[k] # tags[k])}) = 1}

\* The declarations a run with tags starts from: the example with any tags.
InitTagConfigs == {[BaseConfig EXCEPT !.tags = t] : t \in TagMaps}

InitTags ==
    /\ store = [n \in Names |-> Absent]
    /\ state = NoState
    /\ declared \in InitTagConfigs
    /\ last = NoOp
    /\ untouched = FALSE
    /\ replacing = FALSE
    /\ nEnv = 0
    /\ nDecl = 0

\* The caller re-declares the tags.
DeclareTags ==
    /\ Idle
    /\ nDecl < MaxDecl
    /\ \E t \in TagMaps \ {declared.tags} : declared' = [declared EXCEPT !.tags = t]
    /\ nDecl' = nDecl + 1
    /\ UNCHANGED <<store, state, last, untouched, replacing, nEnv>>

\* Another party, the platform with its reserved keys included, sets,
\* changes or removes a tag of an entry.
OtherTag ==
    /\ Idle
    /\ nEnv < MaxEnv
    /\ \E n \in NamesInUse :
           /\ store[n].exists
           /\ \E t \in TagEdits(store[n].tags) :
                  store' = [store EXCEPT ![n].tags = t]
    /\ untouched' = FALSE
    /\ nEnv' = nEnv + 1
    /\ UNCHANGED <<state, declared, last, replacing, nDecl>>

NextTags ==
    \/ Return
    \/ DeclareTags
    \/ Create
    \/ Update
    \/ Refresh
    \/ Destroy
    \/ OtherTag

SpecTags == InitTags /\ [][NextTags]_vars


\* The tag calls among calls.
TagCalls(calls) ==
    SelectSeq(calls, LAMBDA c : c.api \in {"RemoveTagsFromResource", "AddTagsToResource"})

\* The position of the first call among calls that satisfies Test, 0 if none.
FirstCall(calls, Test(_)) ==
    IF \E i \in 1..Len(calls) : Test(calls[i])
    THEN CHOOSE i \in 1..Len(calls) :
             Test(calls[i]) /\ \A j \in 1..(i - 1) : ~Test(calls[j])
    ELSE 0

IsTagCall(c) == c.api \in {"RemoveTagsFromResource", "AddTagsToResource"}
IsAcceptedWrite(c) == c.api = "PutParameter" /\ c.out = "ok"
IsFailedTagCall(c) == IsTagCall(c) /\ c.out # "ok"

\* C16, when: a Put issues tag calls exactly when the declared tags are not
\* those of the saved state and its write was accepted, and issues them
\* after the write.
C16_TagsAfterWriteOnChange ==
    (CreateStep \/ UpdateStep) =>
        /\ (Len(TagCalls(last'.calls)) > 0) <=>
               (state.tags # declared.tags /\ FirstCall(last'.calls, IsAcceptedWrite) > 0)
        /\ Len(TagCalls(last'.calls)) > 0 =>
               FirstCall(last'.calls, IsAcceptedWrite) < FirstCall(last'.calls, IsTagCall)

\* C16, failure: when a tag call fails the Put returns the tags error, which
\* is not the error of the write; the failed call is its last call, so no
\* Read ran; the store holds the declared secret; the identity is the one
\* the record had before.
C16_TagFailureAfterCommit ==
    ((CreateStep \/ UpdateStep) /\ FirstCall(last'.calls, IsFailedTagCall) > 0) =>
        /\ last'.err = "error updating SSM Parameter tags"
        /\ last'.err # "error creating SSM parameter"
        /\ FirstCall(last'.calls, IsFailedTagCall) = Len(last'.calls)
        /\ \A i \in 1..Len(last'.calls) : last'.calls[i].api # "GetParameter"
        /\ store'[declared.name].exists
        /\ store'[declared.name].value = SecretOf(declared)
        /\ state'.id = state.id

\* C16: tag reconciliation in Put runs only when the declared tags differ
\* from the observed ones, and only after the write succeeded; when it fails
\* Put returns an error that is not the write error, the write stays in the
\* store, the identity is not recorded and no trailing Read runs.
C16_TagReconciliation ==
    /\ [][C16_TagsAfterWriteOnChange]_vars
    /\ [][C16_TagFailureAfterCommit]_vars

\* A Create whose add-tags call failed: it returned the tags error, the store
\* holds the secret it wrote, and the record is not managed.
C16_Witness ==
    /\ last.op = "Create"
    /\ last.err = "error updating SSM Parameter tags"
    /\ last.calls[Len(last.calls)].api = "AddTagsToResource"
    /\ last.calls[Len(last.calls)].out # "ok"
    /\ store[last.d.name].exists
    /\ store[last.d.name].value = SecretOf(last.d)
    /\ state = NoState


----------------------------------------------------------------------------
(* SsmUpdateTags on its own: applied once to any old and new tags          *)

\* A managed record with the example declaration and the tags old.
RecordWithTags(old) ==
    [DataForCreate(BaseConfig) EXCEPT !.id = BaseConfig.name, !.tags = old]

\* A store that holds the entry of the example with the tags old.
StoreWithTags(old) ==
    [n \in Names |->
        IF n = BaseConfig.name
        THEN [exists |-> TRUE, value |-> "p1", tier |-> ParameterTierStandard,
              dataType |-> "text", tags |-> old]
        ELSE Absent]

\* Any old tags (state.tags) and any new tags (declared.tags).
InitUpdateTags ==
    /\ \E old \in TagMaps :
           /\ store = StoreWithTags(old)
           /\ state = RecordWithTags(old)
    /\ declared \in InitTagConfigs
    /\ last = NoOp
    /\ untouched = FALSE
    /\ replacing = FALSE
    /\ nEnv = 0
    /\ nDecl = 0

\* SsmUpdateTags from the tags of the state to the declared ones.
ApplySsmUpdateTags ==
    /\ Idle
    /\ \E in \in [rm : TagFaults, add : TagFaults] :
       \E res \in {SsmUpdateTags(store, state.id, state.tags, declared.tags, in)} :
           /\ store' = res.store
           /\ last' = Ran("SsmUpdateTags", FALSE, FALSE, state, res.err, res.calls)
    /\ UNCHANGED <<state, declared, untouched, replacing, nEnv, nDecl>>

NextUpdateTags == ApplySsmUpdateTags

SpecUpdateTags == InitUpdateTags /\ [][NextUpdateTags]_vars

\* The keys of old that new does not have, and the keys of new that old
\* does not have or has with another value.
KeysGone(old, new) == DOMAIN old \ DOMAIN new
KeysSet(old, new) ==
    {k \in DOMAIN new : k \notin DOMAIN old \/ (k \in DOMAIN old /\ old[k] # new[k])}
Unreserved(keys) == {k \in keys : ~HasAwsPrefix(k)}

\* C17: SsmUpdateTags issues at most one remove-tags call and at most one
\* add-tags call, the remove first; the remove call exactly when a key of
\* old is absent from new, with those keys less the reserved ones; the add
\* call exactly when some key is new or changed and no remove call failed,
\* with those keys and their new values less the reserved ones.
C17_TagDelta ==
    last.op = "SsmUpdateTags" =>
        LET old == state.tags
            new == declared.tags
            rms == SelectSeq(last.calls, LAMBDA c : c.api = "RemoveTagsFromResource")
            adds == SelectSeq(last.calls, LAMBDA c : c.api = "AddTagsToResource")
            rmFailed == Len(rms) = 1 /\ rms[1].out # "ok"
        IN  /\ Len(rms) <= 1 /\ Len(adds) <= 1
            /\ last.calls = rms \o adds
            /\ Len(rms) = 1 <=> KeysGone(old, new) # {}
            /\ Len(rms) = 1 =>
                   rms[1].arg = [ResourceId |-> state.id,
                                 TagKeys |-> Unreserved(KeysGone(old, new))]
            /\ Len(adds) = 1 <=> (KeysSet(old, new) # {} /\ ~rmFailed)
            /\ Len(adds) = 1 =>
                   /\ adds[1].arg.ResourceId = state.id
                   /\ DOMAIN adds[1].arg.Tags = Unreserved(KeysSet(old, new))
                   /\ \A k \in DOMAIN adds[1].arg.Tags : adds[1].arg.Tags[k] = new[k]
            /\ rmFailed => last.err = "error untagging resource"

\* A reserved key went and a user key came: the remove call is issued with
\* no key, the reserved one being stripped, and the add call follows it.
C17_Witness ==
    /\ last.op = "SsmUpdateTags"
    /\ Len(last.calls) = 2
    /\ last.calls[1].api = "RemoveTagsFromResource"
    /\ HasAwsPrefix("aws:stack") /\ "aws:stack" \in KeysGone(state.tags, declared.tags)
    /\ last.calls[1].arg.TagKeys = {}
    /\ last.calls[2].api = "AddTagsToResource"
    /\ DOMAIN last.calls[2].arg.Tags = {"team"}
    /\ last.err = ""


----------------------------------------------------------------------------
(* KeyValueTags.Updated on its own: applied once to any two tag sets.  In   *)
(* this specification the tags of state and declared are KeyValueTags: the  *)
(* receiver and the argument; the tags of last.d are the result.            *)

\* Additional fields of a TagData: none (a nil map), an empty map, one field.
BoolFieldMaps == {NilMap, GoMap(<<>>), GoMap([f \in {"PropagateAtLaunch"} |-> TRUE])}
StringFieldMaps == {NilMap, GoMap([f \in {"Note"} |-> "x"])}

TagDatas ==
    {NilTagData} \cup
    {TagData(v, b, s) : v \in TagValues, b \in BoolFieldMaps, s \in StringFieldMaps}

KeyValueTags == UNION {[ks -> TagDatas] : ks \in SUBSET TagKeys}

InitUpdated ==
    /\ store = [n \in Names |-> Absent]
    /\ \E old \in KeyValueTags : state = [NoState EXCEPT !.tags = old]
    /\ \E new \in KeyValueTags : declared = [BaseConfig EXCEPT !.tags = new]
    /\ last = NoOp
    /\ untouched = FALSE
    /\ replacing = FALSE
    /\ nEnv = 0
    /\ nDecl = 0

\* tags.Updated(newTags)
ApplyUpdated ==
    /\ Idle
    /\ last' = Ran("Updated", FALSE, FALSE,
                   [NoState EXCEPT !.tags = Updated(state.tags, declared.tags)],
                   "", <<>>)
    /\ UNCHANGED <<store, state, declared, untouched, replacing, nEnv, nDecl>>

NextUpdated == ApplyUpdated

SpecUpdated == InitUpdated /\ [][NextUpdated]_vars

\* Two TagData differ: one of them is nil and the other is not, or their
\* values, their boolean fields or their string fields differ.
TagDataDiffer(a, b) ==
    \/ a.isNil # b.isNil
    \/ /\ ~a.isNil /\ ~b.isNil
       /\ \/ a.Value # b.Value
          \/ a.AdditionalBoolFields # b.AdditionalBoolFields
          \/ a.AdditionalStringFields # b.AdditionalStringFields

\* C18, the result: Updated returns exactly the keys of new that old does
\* not have or has with a TagData that differs in value, boolean fields or
\* string fields, each with its TagData in new.
C18_UpdatedResult ==
    last.op = "Updated" =>
        LET old == state.tags
            new == declared.tags
            result == last.d.tags
        IN  /\ DOMAIN result =
                   {k \in DOMAIN new :
                       k \notin DOMAIN old
                           \/ (k \in DOMAIN old /\ TagDataDiffer(old[k], new[k]))}
            /\ \A k \in DOMAIN result : result[k] = new[k]
            /\ \A k \in DOMAIN new \cap DOMAIN old :
                   old[k] = new[k] => k \notin DOMAIN result

\* C18, the inputs: applying Updated leaves both tag sets as they were.
C18_InputsKept ==
    (Idle /\ last'.op = "Updated") => (state' = state /\ declared' = declared)

\* C18: Updated returns exactly the keys that are new or whose TagData
\* differs in value or in an additional field, mapped to the new TagData,
\* never a key whose TagData is equal in both, and modifies neither set.
C18_Updated ==
    /\ [](C18_UpdatedResult)
    /\ [][C18_InputsKept]_vars

\* A key with the same value in both sets, whose boolean fields differ, is
\* returned, and a key whose TagData is the same in both is not.
C18_Witness ==
    /\ last.op = "Updated"
    /\ DOMAIN state.tags = TagKeys /\ DOMAIN declared.tags = TagKeys
    /\ ~state.tags["team"].isNil /\ ~declared.tags["team"].isNil
    /\ state.tags["team"].Value = declared.tags["team"].Value
    /\ state.tags["team"].AdditionalBoolFields # declared.tags["team"].AdditionalBoolFields
    /\ state.tags["aws:stack"] = declared.tags["aws:stack"]
    /\ DOMAIN last.d.tags = {"team"}


\* A key the ignore configuration excludes: one of its keys, or one with one
\* of its prefixes; a nil configuration excludes none.
IgnoredByConfig(k) ==
    /\ ~IgnoreTagsConfig.isNil
    /\ \/ k \in IgnoreTagsConfig.Keys
       \/ \E p \in IgnoreTagsConfig.KeyPrefixes : p = AwsTagKeyPrefix /\ HasAwsPrefix(k)

\* The tags t less the reserved-prefix keys and the keys the configuration
\* excludes.
ExpectedTags(t) ==
    [k \in {x \in DOMAIN t : ~HasAwsPrefix(x) /\ ~IgnoredByConfig(x)} |-> t[k]]

\* The tags t less the reserved-prefix keys.
UnreservedTags(t) == [k \in Unreserved(DOMAIN t) |-> t[k]]

\* A Put that succeeds and leaves a managed record.
PutStepSucceeds == (CreateStep \/ UpdateStep) /\ last'.err = "" /\ state'.id # ""

\* The state the Put starts from shows the tags the entry has, reserved ones
\* aside.
TagsCurrent == UnreservedTags(store[declared.name].tags) = UnreservedTags(state.tags)

\* A Read of the record a Put left, with no other writer in between, shows
\* the tags it found in the state.
C19_ReadKeepsTags ==
    (ReadStep /\ untouched /\ last'.err = "" /\ state'.id # "") => state'.tags = state.tags

\* C19 as claimed: after a Put and a Read of the unchanged record the
\* observed tags are the declared tags less the reserved-prefix keys and the
\* keys the ignore configuration excludes.
C19_ObservedTagsAreDeclared ==
    /\ [][PutStepSucceeds => state'.tags = ExpectedTags(declared.tags)]_vars
    /\ [][C19_ReadKeepsTags]_vars

\* C19 as amended: the same, for a Put that starts from a state showing the
\* tags the entry has in the store, reserved-prefix ones aside.
C19_ObservedTagsAreDeclaredIfCurrent ==
    /\ [][(PutStepSucceeds /\ TagsCurrent) => state'.tags = ExpectedTags(declared.tags)]_vars
    /\ [][C19_ReadKeepsTags]_vars

\* A Read after a Put of a user tag and a reserved tag shows the user tag
\* only, which is the only one the entry got.
C19_Witness ==
    /\ last.op = "Read"
    /\ last.err = ""
    /\ untouched
    /\ DOMAIN declared.tags = TagKeys
    /\ state.tags = [k \in {"team"} |-> declared.tags["team"]]
    /\ DOMAIN store[state.id].tags = {"team"}


\* The answers of services that answer a Put and its trailing Read without
\* a fault.
PutAnswered ==
    [kmsUp |-> TRUE, w1 |-> "none", w2 |-> "none", rm |-> "none", add |-> "none",
     read |-> ReadAnswered]

\* The stores that differ from store in the reserved-prefix tags of the
\* entry of the managed record only.
ReservedVariants ==
    {[store EXCEPT ![state.id].tags = t] :
        t \in {t2 \in TagMaps : UnreservedTags(t2) = UnreservedTags(store[state.id].tags)}}

\* A Read of the managed record against the store st.
ReadOn(st) == Read(state, FALSE, st, ReadAnswered)

\* The tag calls of the next Put of the declaration, after a Read against
\* the store st.
NextPutTagCalls(st) ==
    TagCalls(Put(DataForUpdate(ReadOn(st).d, declared), ReadOn(st).d.tags, FALSE,
                 st, PutAnswered).calls)

\* C20: two runs that differ only in the reserved-prefix tags the entry
\* has in the store, which Read filters out of the observed state, issue
\* the same remove-tags and add-tags calls with the same payloads on the next
\* Put of the same declaration.  (The ignore configuration is nil in every
\* run of this program.)
C20_FilteringIsPresentationOnly ==
    (state.id # "" /\ store[state.id].exists) =>
        \A st2 \in ReservedVariants :
            (ReadOn(store).err = "" /\ ReadOn(st2).err = "") =>
                /\ ReadOn(store).d.tags = ReadOn(st2).d.tags
                /\ NextPutTagCalls(store) = NextPutTagCalls(st2)

\* The entry has a reserved tag that the observed state does not show, and
\* the next Put of the declaration issues a tag call.
C20_Witness ==
    /\ last.op = "Read"
    /\ last.err = ""
    /\ state.id # ""
    /\ "aws:stack" \in DOMAIN store[state.id].tags
    /\ "aws:stack" \notin DOMAIN state.tags
    /\ Cardinality(ReservedVariants) > 1
    /\ Len(NextPutTagCalls(store)) > 0


----------------------------------------------------------------------------
(* resourceAwsSsmParameterRead, call by call *)

\* One Read taken one remote call at a time, to follow its retry loop.  The
\* variables are those of the module: `state` is the data as Read has left
\* it so far, `last` is the run (pc: where Read stands; polls: the fetches
\* answered inside the window; err: the error in hand; calls: the calls
\* issued), `store` is the Parameter Store, which no step writes.

\* A variant whose window never closes.
WindowOpen_Forever(polls) == TRUE

\* ssmParameterCreationValidationTimeout: the window of resource.Retry is
\* open for another fetch while fewer than MaxPolls fetches were answered.
WindowOpen(polls) == polls < MaxPolls

\* The data the Reads start on: a record with its Id set, of either data
\* type, whose declared value decodes and decrypts or does not.
ReadStartData ==
    {[DataForCreate([BaseConfig EXCEPT !.data_type = t, !.encrypted_value = v,
                                       !.encryption_key = k])
         EXCEPT !.id = BaseConfig.name] :
        t \in DataTypes, v \in EncValues, k \in Keys}

\* The stores the Reads start on: the entry is there, with or without a
\* reserved tag, or is not.
ReadStartStores ==
    {[n \in Names |-> Absent], StoreWithTags(NoTags),
     StoreWithTags([k \in {"aws:stack"} |-> "a"])}

RunningRead(pc, isNew, d, polls, err, calls) ==
    [op |-> "Read", pc |-> pc, isNew |-> isNew, forReplace |-> FALSE, d |-> d,
     polls |-> polls, err |-> err, calls |-> calls]

InitReadSteps ==
    /\ store \in ReadStartStores
    /\ state \in ReadStartData
    /\ declared = BaseConfig
    /\ \E isNew \in BOOLEAN : last = RunningRead("retry", isNew, state, 0, "", <<>>)
    /\ untouched = FALSE
    /\ replacing = FALSE
    /\ nEnv = 0
    /\ nDecl = 0

\* What GetParameter can answer: the entry when it is there; not-found also
\* for an entry that is there (its validation is asynchronous); a failure.
GetParameterAnswers ==
    {"ParameterNotFound", "InternalServerError"}
        \cup (IF store[state.id].exists THEN {"ok"} ELSE {})

\* Read moves from pc to next with the error err and one more call.
ReadMoves(next, polls, err, calls) ==
    last' = [last EXCEPT !.pc = next, !.polls = polls, !.err = err, !.calls = calls]

\* l.123-136: one fetch of the retry function gets its answer.  A retryable
\* answer asks for another fetch while the window is open; when the window
\* has closed resource.Retry returns the retryable error; any other answer
\* ends the loop.
RetryFetch ==
    /\ last.pc = "retry"
    /\ \E ans \in GetParameterAnswers :
       LET calls == Append(last.calls,
                           Call("GetParameter", [Name |-> state.id, site |-> "retry"], ans))
       IN  IF Retryable(state, last.isNew, ans)
           THEN \/ /\ WindowOpen(last.polls + 1)
                   /\ ReadMoves("retry", last.polls + 1, "", calls)
                \/ ReadMoves("afterRetry", last.polls + 1, "retryable", calls)
           ELSE ReadMoves("afterRetry", last.polls + 1, ans, calls)
    /\ UNCHANGED <<store, state, declared, untouched, replacing, nEnv, nDecl>>

\* l.123-136: the first fetch has not answered when the window closes;
\* resource.Retry gives up on it and returns a timeout without a last error.
RetryFetchHangs ==
    /\ last.pc = "retry"
    /\ last.polls = 0
    /\ ReadMoves("afterRetry", 0, "timeout",
                 Append(last.calls,
                        Call("GetParameter", [Name |-> state.id, site |-> "retry"],
                             "no answer")))
    /\ UNCHANGED <<store, state, declared, untouched, replacing, nEnv, nDecl>>

\* l.138-159: after a timeout, one more fetch; then the tolerated not-found,
\* the error of the fetch, and the decoding of the declared value.
AfterRetry ==
    /\ last.pc = "afterRetry"
    /\ \E ans \in (IF isResourceTimeoutError(last.err) THEN GetParameterAnswers
                   ELSE {last.err}) :
       LET calls == IF isResourceTimeoutError(last.err)
                    THEN Append(last.calls,
                                Call("GetParameter",
                                     [Name |-> state.id, site |-> "final"], ans))
                    ELSE last.calls
       IN  IF NotFoundGone(ans, last.isNew)
           THEN /\ state' = SetId(state, "")
                /\ ReadMoves("done", last.polls, "", calls)
           ELSE /\ state' = state
                /\ IF ans # "ok"
                   THEN ReadMoves("done", last.polls, "error reading SSM Parameter", calls)
                   ELSE IF ~Base64Decode(state.encrypted_value).ok
                   THEN ReadMoves("done", last.polls, "illegal base64 data", calls)
                   ELSE ReadMoves("decrypt", last.polls, "", calls)
    /\ UNCHANGED <<store, declared, untouched, replacing, nEnv, nDecl>>

\* l.161-181: the declared value is decrypted and compared with the stored one.
DecryptStep ==
    /\ last.pc = "decrypt"
    /\ \E kmsUp \in BOOLEAN :
       LET blob == Base64Decode(state.encrypted_value).blob
           result == KmsDecrypt(state.encryption_key, blob, kmsUp)
           calls == Append(last.calls,
                           Call("Decrypt", [KeyId |-> state.encryption_key,
                                            CiphertextBlob |-> blob],
                                IF result.ok THEN "ok" ELSE "error"))
       IN  IF ~result.ok
           THEN /\ state' = state
                /\ ReadMoves("done", last.polls, "Error decrypting with KMS", calls)
           ELSE /\ state' = [state EXCEPT
                                !.name = state.id,
                                !.encrypted_value =
                                    ShownValue(state, result.plaintext, store[state.id].value)]
                /\ ReadMoves("describe", last.polls, "", calls)
    /\ UNCHANGED <<store, declared, untouched, replacing, nEnv, nDecl>>

\* l.183-211: the describe call; a failure is returned, an empty answer
\* clears the Id.
DescribeStep ==
    /\ last.pc = "describe"
    /\ \E desc \in {"ok", "empty", "error"} :
       LET calls == Append(last.calls,
                           Call("DescribeParameters", [Name |-> state.name], desc))
       IN  IF desc = "error"
           THEN /\ state' = state
                /\ ReadMoves("done", last.polls, "error describing SSM parameter", calls)
           ELSE IF DescribeGone(desc, last.isNew)
           THEN /\ state' = SetId(state, "")
                /\ ReadMoves("done", last.polls, "", calls)
           ELSE /\ state' = [state EXCEPT !.tier = store[state.id].tier,
                                          !.data_type = store[state.id].dataType]
                /\ ReadMoves("listTags", last.polls, "", calls)
    /\ UNCHANGED <<store, declared, untouched, replacing, nEnv, nDecl>>

\* l.213-225: the tags are listed, filtered and set.
ListTagsStep ==
    /\ last.pc = "listTags"
    /\ \E tagsUp \in BOOLEAN :
       LET calls == Append(last.calls,
                           Call("ListTagsForResource", [ResourceId |-> state.name],
                                IF tagsUp THEN "ok" ELSE "error"))
           tags == New(store[state.id].tags)
       IN  IF ~tagsUp
           THEN /\ state' = state
                /\ ReadMoves("done", last.polls,
                             "error listing tags for SSM Parameter", calls)
           ELSE /\ state' = [state EXCEPT
                                !.tags = Map(IgnoreConfig(IgnoreAws(tags), IgnoreTagsConfig))]
                /\ ReadMoves("done", last.polls, "", calls)
    /\ UNCHANGED <<store, declared, untouched, replacing, nEnv, nDecl>>

NextReadSteps ==
    \/ RetryFetch
    \/ RetryFetchHangs
    \/ AfterRetry
    \/ DecryptStep
    \/ DescribeStep
    \/ ListTagsStep

\* Every call that was issued is answered or given up on: a Read that has a
\* step to take takes it.
SpecReadSteps ==
    InitReadSteps /\ [][NextReadSteps]_vars /\ WF_vars(NextReadSteps)

\* The fetches of the running Read at one site.
FetchesAt(site) ==
    SelectSeq(last.calls, LAMBDA c : c.api = "GetParameter" /\ c.arg.site = site)

\* C21, the loop: it issues no more fetches than fit into the window, and
\* every fetch but its last was answered not-found for a new image
\* record; so it ends with the first answer that finds the entry or is not
\* retryable, or when the window closes.
C21_LoopEndsAtFirstDecision ==
    /\ Len(FetchesAt("retry")) <= MaxPolls
    /\ \A i \in 1..(Len(FetchesAt("retry")) - 1) :
           /\ FetchesAt("retry")[i].out = "ParameterNotFound"
           /\ last.isNew
           /\ last.d.data_type = DataTypeImage
    /\ (last.pc = "retry" /\ Len(FetchesAt("retry")) > 0) =>
           /\ FetchesAt("retry")[Len(FetchesAt("retry"))].out = "ParameterNotFound"
           /\ last.isNew
           /\ last.d.data_type = DataTypeImage

\* C21, after the loop: at most one more fetch, one decrypt, one describe and
\* one list-tags call, and no call of any other kind.
C21_BoundedAfterLoop ==
    /\ Len(FetchesAt("final")) <= 1
    /\ Len(CallsTo("Decrypt")) <= 1
    /\ Len(CallsTo("DescribeParameters")) <= 1
    /\ Len(CallsTo("ListTagsForResource")) <= 1
    /\ Len(last.calls) = Len(FetchesAt("retry")) + Len(FetchesAt("final"))
                         + Len(CallsTo("Decrypt")) + Len(CallsTo("DescribeParameters"))
                         + Len(CallsTo("ListTagsForResource"))

\* C21: every Read returns, also when every fetch is answered not-found:
\* its loop ends at the first decision or when the window closes, and what
\* follows the loop is at most one call of each kind.
C21_ReadTerminates ==
    /\ <>(last.pc = "done")
    /\ [](C21_LoopEndsAtFirstDecision /\ C21_BoundedAfterLoop)

\* A Read of a new image record has returned after the window closed on
\* fetches that were all answered not-found.
C21_Witness ==
    /\ last.pc = "done"
    /\ last.isNew
    /\ Len(FetchesAt("retry")) = MaxPolls
    /\ \A i \in 1..MaxPolls : FetchesAt("retry")[i].out = "ParameterNotFound"
    /\ last.err # ""


----------------------------------------------------------------------------
(* The lifecycle with names and tags re-declared *)

\* The declarations a run starts from: the example, with or without a tag.
InitIdentityConfigs == {[BaseConfig EXCEPT !.tags = t] : t \in DeclTags}

InitIdentity ==
    /\ store = [n \in Names |-> Absent]
    /\ state = NoState
    /\ declared \in InitIdentityConfigs
    /\ last = NoOp
    /\ untouched = FALSE
    /\ replacing = FALSE
    /\ nEnv = 0
    /\ nDecl = 0

\* The caller re-declares the name, the data type or the tags.
DeclareIdentity ==
    /\ Idle
    /\ nDecl < MaxDecl
    /\ ~replacing
    /\ \E cfg \in ({[declared EXCEPT !.name = v] : v \in Names}
                      \cup {[declared EXCEPT !.data_type = v] : v \in DataTypes}
                      \cup {[declared EXCEPT !.tags = v] : v \in DeclTags}) \ {declared} :
           declared' = cfg
    /\ nDecl' = nDecl + 1
    /\ UNCHANGED <<store, state, last, untouched, replacing, nEnv>>

NextIdentity ==
    \/ Return
    \/ DeclareIdentity
    \/ Create
    \/ Update
    \/ Refresh
    \/ Replace
    \/ Destroy
    \/ OtherDelete

SpecIdentity == InitIdentity /\ [][NextIdentity]_vars

IsFetch(c) == c.api = "GetParameter"

\* C22, when: a Put that reached its trailing Read had a write accepted and
\* every tag call it issued answered before the first fetch, and every fetch
\* asks for the declared name; a Put that did not reach its trailing Read
\* failed and left the identity as it found it (none for a new record).
C22_IdentityAfterWriteAndTags ==
    LastIsPut =>
        /\ RanRead =>
               /\ \E i \in 1..(FirstCall(last.calls, IsFetch) - 1) :
                      IsAcceptedWrite(last.calls[i])
               /\ \A i \in 1..(FirstCall(last.calls, IsFetch) - 1) :
                      ~IsFailedTagCall(last.calls[i])
               /\ \A i \in FirstCall(last.calls, IsFetch)..Len(last.calls) :
                      /\ ~IsTagCall(last.calls[i])
                      /\ last.calls[i].api # "PutParameter"
                      /\ IsFetch(last.calls[i]) => last.calls[i].arg.Name = last.d.name
        /\ ~RanRead =>
               /\ last.err # ""
               /\ state.id = last.d.id
               /\ last.isNew => state = NoState

\* C22, which entry: after a Put or a Read that succeeded and kept the
\* identity, the identity is the name, so the entry Delete addresses (by
\* name) is the entry Read fetches (by identity).
C22_IdentityIsName ==
    ((LastIsPut \/ last.op = "Read") /\ last.err = "" /\ state.id # "") =>
        /\ state.id = state.name
        /\ LastIsPut => state.id = declared.name
        /\ Delete(state, store, "none").calls[1].arg.Name
               = Read(state, FALSE, store, ReadAnswered).calls[1].arg.Name

\* C22: the identity is recorded after the write and the tag
\* reconciliation succeeded and before the trailing Read, and after a Put or
\* Read that succeeded with the identity kept, identity and name denote the
\* same entry.
C22_IdentityRecorded == C22_IdentityAfterWriteAndTags /\ C22_IdentityIsName

\* A Create that declared a tag succeeded: its tag call came before its
\* fetch and the identity is the declared name.
C22_Witness ==
    /\ last.op = "Create"
    /\ last.err = ""
    /\ Len(TagCalls(last.calls)) > 0
    /\ state.id = declared.name
    /\ state.name = declared.name


\* The last call of the last handler run.
LastCall == last.calls[Len(last.calls)]

\* The trailing Read of the last Put failed: the Put reached a fetch and its
\* last call is a fetch that did not get the entry (not-found being
\* tolerated for a record that is not new), or a decrypt, describe or
\* list-tags call that failed.
TrailingReadFailed ==
    /\ LastIsPut
    /\ RanRead
    /\ \/ /\ IsFetch(LastCall)
          /\ LastCall.out # "ok"
          /\ ~(LastCall.out = "ParameterNotFound" /\ ~last.isNew)
       \/ /\ LastCall.api \in {"Decrypt", "DescribeParameters", "ListTagsForResource"}
          /\ LastCall.out = "error"

\* The error Read returns for the call that failed it.
ReadErrorFor(c) ==
    CASE c.api = "GetParameter" -> "error reading SSM Parameter"
      [] c.api = "Decrypt" -> "Error decrypting with KMS"
      [] c.api = "DescribeParameters" -> "error describing SSM parameter"
      [] c.api = "ListTagsForResource" -> "error listing tags for SSM Parameter"

\* C23: when the trailing Read of a Put fails, the Put returns the error of
\* that Read; the entry holds what the Put wrote, every tag call the Put
\* issued was accepted, the Put issued no delete and no write after the one
\* that was accepted, and the identity is the declared name.
C23_TrailingReadFailure ==
    TrailingReadFailed =>
        /\ last.err = ReadErrorFor(LastCall)
        /\ store[last.d.name].exists
        /\ store[last.d.name].value = SecretOf(last.d)
        /\ store[last.d.name].dataType = last.d.data_type
        /\ \A i \in 1..Len(last.calls) : ~IsFailedTagCall(last.calls[i])
        /\ Len(CallsTo("DeleteParameter")) = 0
        /\ IsAcceptedWrite(Writes[Len(Writes)])
        /\ \A i \in FirstCall(last.calls, IsFetch)..Len(last.calls) :
               last.calls[i].api \notin {"PutParameter", "DeleteParameter",
                                         "RemoveTagsFromResource", "AddTagsToResource"}
        /\ state.id = last.d.name
        /\ state.id # ""

\* A Create that declared a tag wrote the entry and its tag, and then the
\* describe call of its trailing Read failed.
C23_Witness ==
    /\ last.op = "Create"
    /\ TrailingReadFailed
    /\ LastCall.api = "DescribeParameters"
    /\ Len(TagCalls(last.calls)) > 0
    /\ store[last.d.name].exists
    /\ state.tainted


\* C24 as claimed: a Create that returns success leaves the identity set to
\* the declared name, whatever the fetch, describe and list-tags calls of its
\* trailing Read answer.
C24_CreateSuccessKeepsIdentity ==
    (last.op = "Create" /\ last.err = "") =>
        /\ state.id = last.d.name
        /\ state.id # ""


\* C25 as claimed: every remove-tags call of a Put carries at least one key
\* and every add-tags call at least one tag.
C25_TagPayloadsNonEmpty ==
    LastIsPut =>
        \A i \in 1..Len(last.calls) :
            /\ last.calls[i].api = "RemoveTagsFromResource"
                   => last.calls[i].arg.TagKeys # {}
            /\ last.calls[i].api = "AddTagsToResource"
                   => DOMAIN last.calls[i].arg.Tags # {}


\* The calls that read from the store or decrypt.
ReadApis == {"GetParameter", "Decrypt", "DescribeParameters", "ListTagsForResource"}

\* C26, the calls: a Read issues fetch, decrypt, describe and list-tags calls
\* only, as a handler of its own and as the trailing Read of a Put.
C26_ReadOnlyCalls ==
    /\ last.op = "Read" =>
           \A i \in 1..Len(last.calls) : last.calls[i].api \in ReadApis
    /\ (LastIsPut /\ RanRead) =>
           \A i \in FirstCall(last.calls, IsFetch)..Len(last.calls) :
               last.calls[i].api \in ReadApis

\* C26, the store: a Read, whether it succeeds, tolerates a not-found or
\* fails, leaves every entry of the store as it was.
C26_StoreKept == ReadStep => store' = store

\* C26: Read never changes the remote store.
C26_ReadChangesNothing == [](C26_ReadOnlyCalls) /\ [][C26_StoreKept]_vars

\* A Read found another plaintext stored than the declared one and showed
\* the sentinel; the store still holds the other plaintext.
C26_Witness ==
    /\ last.op = "Read"
    /\ last.err = ""
    /\ state.id # ""
    /\ state.encrypted_value = Sentinel
    /\ store[state.id].exists
    /\ store[state.id].value # SecretOf(last.d)

====
